---- MODULE Spec2Model ----
\* GCSecretManager (src/src/GCSecretManager.js): configuration merging, request
\* construction and response classification of the Secret Manager client, on
\* both the handle surface (init(...).get/set/...) and the functional surface.
EXTENDS Integers, Sequences, FiniteSets, TLC

\* ---------------------------------------------------------------- bounds
MaxHandles == 2
MaxVersions == 1

\* ------------------------------------------------------- JavaScript values
\* null, undefined and "key not present in the object" are three different
\* things for the object spread; they are kept apart from ordinary strings.
NULL == "<null>"
UNDEF == "<undefined>"
ABSENT == "<absent>"
EMPTY == ""

ProjectIds == {"p1", "p2"}
VersionIds == {"latest", "1"}
Keys == {"k1"}

\* what a caller can pass as a project / a version
ProjectArgs == ProjectIds \cup {NULL, EMPTY}
VersionArgs == VersionIds \cup {NULL, UNDEF}

\* a config object literal: each key is present (with a value) or not present.
\* The literals tried: {}, every one-key literal, and two two-key literals.
NoConfig == [project |-> ABSENT, version |-> ABSENT]
ConfigArgs == [project : ProjectArgs \cup {ABSENT}, version : {ABSENT}]
              \cup [project : {ABSENT}, version : VersionArgs]
              \cup {[project |-> "p2", version |-> "1"], [project |-> NULL, version |-> UNDEF]}

\* `${x}` in a template literal
Str(x) == IF x = NULL THEN "null" ELSE IF x = UNDEF THEN "undefined" ELSE x

\* !x for the values above
Falsy(x) == x \in {NULL, UNDEF, EMPTY}

\* ------------------------------------------------ strings, bytes, base64
\* A string is a sequence of code points, bytes are 0..255, base64 text is a
\* sequence of sextets 0..63 with PAD for '='.
PAD == 64
REPLACEMENT == 65533

RECURSIVE EncodeUTF8(_)
EncodeUTF8(s) ==
    IF s = << >> THEN << >>
    ELSE LET c == Head(s) IN
         (IF c < 128 THEN << c >> ELSE << 192 + (c \div 64), 128 + (c % 64) >>)
             \o EncodeUTF8(Tail(s))

RECURSIVE DecodeUTF8(_)
DecodeUTF8(b) ==
    IF b = << >> THEN << >>
    ELSE LET x == Head(b) IN
         IF x < 128 THEN << x >> \o DecodeUTF8(Tail(b))
         ELSE IF x >= 194 /\ x < 224 /\ Len(b) >= 2 /\ b[2] >= 128 /\ b[2] < 192
              THEN << (x - 192) * 64 + (b[2] - 128) >> \o DecodeUTF8(Tail(Tail(b)))
              ELSE << REPLACEMENT >> \o DecodeUTF8(Tail(b))

RECURSIVE EncodeBytes(_)
EncodeBytes(b) ==
    IF b = << >> THEN << >>
    ELSE IF Len(b) = 1
         THEN << b[1] \div 4, (b[1] % 4) * 16, PAD, PAD >>
    ELSE IF Len(b) = 2
         THEN << b[1] \div 4, (b[1] % 4) * 16 + (b[2] \div 16), (b[2] % 16) * 4, PAD >>
    ELSE << b[1] \div 4, (b[1] % 4) * 16 + (b[2] \div 16),
            (b[2] % 16) * 4 + (b[3] \div 64), b[3] % 64 >>
            \o EncodeBytes(SubSeq(b, 4, Len(b)))

RECURSIVE base64Decode(_)
base64Decode(d) ==
    IF Len(d) < 4 THEN << >>
    ELSE LET b1 == d[1] * 4 + (d[2] \div 16)
             b2 == (d[2] % 16) * 16 + (d[3] \div 4)
             b3 == (d[3] % 4) * 64 + d[4]
         IN  (IF d[3] = PAD THEN << b1 >>
              ELSE IF d[4] = PAD THEN << b1, b2 >>
              ELSE << b1, b2, b3 >>) \o base64Decode(SubSeq(d, 5, Len(d)))

\* Utilities.base64Encode(string): the string's UTF-8 bytes in base64
base64Encode(value) == EncodeBytes(EncodeUTF8(value))

\* Utilities.newBlob(bytes).getDataAsString()
getDataAsString(bytes) == DecodeUTF8(bytes)

\* secret values a caller stores: "ab", "é"
Values == { << 97, 98 >>, << 233 >> }

\* payload.data texts a server answers with: base64 of some bytes, not all of
\* them valid UTF-8
ResponseBytes == { << 97, 195, 169 >>, << 233 >> }
ResponseData == { EncodeBytes(b) : b \in ResponseBytes }

\* ------------------------------------------------------------ the state
VARIABLES
    heap,        \* configuration objects by reference; DEFAULT_CONFIG is one of them
    config_,     \* handle -> reference of its this.config_ (NoRef: not created)
    pc,          \* "idle", or "createSecretVersion" inside set() after step 1
    call,        \* the public call in progress / last made, with its arguments
    requests,    \* UrlFetchApp.fetch invocations of that call, in order
    responses,   \* the HTTP responses to them, in the same order
    result,      \* what the call returned or threw
    tokenCalls,  \* ScriptApp.getOAuthToken invocations of that call
    bodyReads,   \* response.getContentText invocations of that call
    decodeArgs,  \* arguments of Utilities.base64Decode in that call, in order
    store,       \* the remote Secret Manager: state of each secret
    abandoned    \* secrets that a set() created and then left without its version

vars == << heap, config_, pc, call, requests, responses, result, tokenCalls,
           bodyReads, decodeArgs, store, abandoned >>

Handles == 1 .. MaxHandles
Refs == 0 .. MaxHandles
NoRef == -1
Free == [project |-> ABSENT, version |-> ABSENT]

\* const DEFAULT_CONFIG = { project: null, version: "latest" }
DEFAULT_CONFIG == 0
DefaultConfigValue == [project |-> NULL, version |-> "latest"]

\* a merge that skips the keys of b whose value is null or undefined
SpreadDefined(a, b) ==
    [f \in {"project", "version"} |-> IF b[f] \notin {ABSENT, NULL, UNDEF} THEN b[f] ELSE a[f]]

\* { ...a, ...b }: every key present in b replaces a's, whatever its value
Spread(a, b) ==
    [f \in {"project", "version"} |-> IF b[f] # ABSENT THEN b[f] ELSE a[f]]

\* init(config): the object handed to the constructor, { ...DEFAULT_CONFIG, ...config }
initConfig(config) == Spread(heap[DEFAULT_CONFIG], config)

\* a merge in which the handle's configuration wins over the call's
getConfigInstanceWins_(thisConfig, config) ==
    Spread(Spread(heap[DEFAULT_CONFIG], config), thisConfig)

\* getConfig_(config): { ...DEFAULT_CONFIG, ...this.config_, ...config }
getConfig_(thisConfig, config) ==
    Spread(Spread(heap[DEFAULT_CONFIG], thisConfig), config)

\* a validation that only rejects null
ProjectMissingNullOnly(mergedConfig) == mergedConfig.project = NULL

\* if (!mergedConfig.project) throw new Error("Google Cloud Project is required")
ProjectMissing(mergedConfig) == Falsy(mergedConfig.project)

\* getSecret(project, key, version = "latest"): the default applies to undefined
VersionParam(version) == IF version = UNDEF THEN "latest" ELSE version

\* ------------------------------------------------------------- requests
NoVersion == "-"
AccessRequest(project, key, version, token) ==
    [kind |-> "access", method |-> "GET", project |-> Str(project), key |-> key,
     version |-> Str(version), payload |-> "none", data |-> << >>, token |-> token]

CreateSecretRequest(project, key, token) ==
    [kind |-> "createSecret", method |-> "POST", project |-> Str(project), key |-> key,
     version |-> NoVersion, payload |-> "replication", data |-> << >>, token |-> token]

\* an add-version request that sends the value as it is
AddVersionRequestRaw(project, key, value, token) ==
    [kind |-> "addVersion", method |-> "POST", project |-> Str(project), key |-> key,
     version |-> NoVersion, payload |-> "data", data |-> value, token |-> token]

AddVersionRequest(project, key, value, token) ==
    [kind |-> "addVersion", method |-> "POST", project |-> Str(project), key |-> key,
     version |-> NoVersion, payload |-> "data", data |-> base64Encode(value),
     token |-> token]

\* ------------------------------------------------------------ responses
\* body text: JSON with payload.data, JSON without payload (an API error
\* object), or text that is not JSON (also the empty text)
Bodies == [kind : {"payload"}, data : ResponseData]
          \cup [kind : {"no_payload", "not_json"}, data : {<< >>}]
ErrorBody == [kind |-> "no_payload", data |-> << >>]
SomeData == EncodeBytes(<< 97, 195, 169 >>)
SomeBody == [kind |-> "payload", data |-> SomeData]
FetchStatuses == {200, 403, 404, 500}
FetchResponses == [status : {403, 404}, body : {ErrorBody, SomeBody}]
                  \cup [status : {200, 500}, body : Bodies]

\* the remote store answers create with 200 (created) or 409 (exists), and
\* add-version with 200 or 404 (no such secret); any request may also fail
\* store[id] is NoSecret or the number of versions of the secret
SecretIds == ProjectIds \X Keys
NoSecret == -1
CreateFaults == {403, 500}
VersionFaults == {201, 500}
CreateStatuses(id) ==
    CreateFaults \cup (IF id \in SecretIds
                         THEN (IF store[id] = NoSecret THEN {200} ELSE {409})
                         ELSE {})
VersionStatuses(id) ==
    VersionFaults \cup (IF id \in SecretIds
                          THEN (IF store[id] = NoSecret THEN {404}
                                ELSE IF store[id] < MaxVersions THEN {200} ELSE {})
                          ELSE {})
StoreAfter(id, kind, status) ==
    IF id \in SecretIds /\ status = 200
    THEN [store EXCEPT ![id] = IF kind = "createSecret" THEN 0 ELSE @ + 1]
    ELSE store

\* --------------------------------------------------------------- results
Returned(kind, text, code) ==
    [outcome |-> "return", kind |-> kind, text |-> text, error |-> "none", code |-> code]
Thrown(error, code) ==
    [outcome |-> "throw", kind |-> "none", text |-> << >>, error |-> error, code |-> code]
Pending == [outcome |-> "pending", kind |-> "none", text |-> << >>, error |-> "none", code |-> 0]
NoResult == [outcome |-> "none", kind |-> "none", text |-> << >>, error |-> "none", code |-> 0]

ProjectRequired == "Google Cloud Project is required"
PermissionDenied == "Permission denied"
UnexpectedCreate == "Unexpected response code when creating a new secret"
UnexpectedVersion == "Unexpected response code when creating a secret version"

\* classifications with one branch changed: 403 not recognised, 404 raised as
\* an error, the payload returned without base64 decoding
ClassifyFetchNo403(resp) ==
    IF resp.status = 404
    THEN [result |-> Returned("undefined", << >>, 0), reads |-> 0, decoded |-> << >>]
    ELSE IF resp.body.kind = "not_json"
    THEN [result |-> Thrown("SyntaxError", 0), reads |-> 1, decoded |-> << >>]
    ELSE IF resp.body.kind = "no_payload"
    THEN [result |-> Thrown("TypeError", 0), reads |-> 1, decoded |-> << >>]
    ELSE [result |-> Returned("string",
                              getDataAsString(base64Decode(resp.body.data)), 0),
          reads |-> 1, decoded |-> << resp.body.data >>]

ClassifyFetch404Throws(resp) ==
    IF resp.status \in {403, 404}
    THEN [result |-> Thrown(PermissionDenied, 0), reads |-> 0, decoded |-> << >>]
    ELSE IF resp.body.kind = "not_json"
    THEN [result |-> Thrown("SyntaxError", 0), reads |-> 1, decoded |-> << >>]
    ELSE IF resp.body.kind = "no_payload"
    THEN [result |-> Thrown("TypeError", 0), reads |-> 1, decoded |-> << >>]
    ELSE [result |-> Returned("string",
                              getDataAsString(base64Decode(resp.body.data)), 0),
          reads |-> 1, decoded |-> << resp.body.data >>]

ClassifyFetchNoDecode(resp) ==
    IF resp.status = 403
    THEN [result |-> Thrown(PermissionDenied, 0), reads |-> 0, decoded |-> << >>]
    ELSE IF resp.status = 404
    THEN [result |-> Returned("undefined", << >>, 0), reads |-> 0, decoded |-> << >>]
    ELSE IF resp.body.kind = "not_json"
    THEN [result |-> Thrown("SyntaxError", 0), reads |-> 1, decoded |-> << >>]
    ELSE IF resp.body.kind = "no_payload"
    THEN [result |-> Thrown("TypeError", 0), reads |-> 1, decoded |-> << >>]
    ELSE [result |-> Returned("string", getDataAsString(resp.body.data), 0),
          reads |-> 1, decoded |-> << >>]

\* getSecret after the fetch: what it returns or throws, how often it reads
\* the body, and what it hands to base64Decode
ClassifyFetch(resp) ==
    IF resp.status = 403
    THEN [result |-> Thrown(PermissionDenied, 0), reads |-> 0, decoded |-> << >>]
    ELSE IF resp.status = 404
    THEN [result |-> Returned("undefined", << >>, 0), reads |-> 0, decoded |-> << >>]
    ELSE IF resp.body.kind = "not_json"
    THEN [result |-> Thrown("SyntaxError", 0), reads |-> 1, decoded |-> << >>]
    ELSE IF resp.body.kind = "no_payload"
    THEN [result |-> Thrown("TypeError", 0), reads |-> 1, decoded |-> << >>]
    ELSE [result |-> Returned("string",
                              getDataAsString(base64Decode(resp.body.data)), 0),
          reads |-> 1, decoded |-> << resp.body.data >>]

\* gates on the create-secret status that are too loose / too strict, and a
\* gate on the add-version status that accepts every 2xx
CreateAcceptedBelow500(code) == code < 500
CreateAcceptedOnly200(code) == code = 200
VersionAccepted2xx(code) == code >= 200 /\ code < 300

\* ![200, 409].includes(code) in set()
CreateAcceptedCreatedOnly(code) == code \in {200, 201}
CreateAccepted(code) == code \in {200, 409}
\* code !== 200 negated, in set()
VersionAccepted(code) == code = 200

\* ---------------------------------------------------------------- calls
NoValue == << >>
Call(op, h, inst, config, project, key, version, value) ==
    [op |-> op, h |-> h, inst |-> inst, config |-> config, project |-> project,
     key |-> key, version |-> version, value |-> value]
NoCall == Call("none", 0, Free, NoConfig, ABSENT, "", ABSENT, NoValue)

\* h = 0 stands for the functional surface, which works on init(...)'s handle
Functional == 0
Created(h) == h \in Handles /\ config_[h] # NoRef
Callable(h) == h = Functional \/ Created(h)

\* the configuration of the handle a call runs on, and the call-level config
\* it passes to getConfig_: get(key, config) is init(config).get(key)
InstanceConfig(h, config) == IF h = Functional THEN initConfig(config) ELSE heap[config_[h]]
CallConfig(h, config) == IF h = Functional THEN NoConfig ELSE config

\* what the call record keeps of a handle: its configuration when the call
\* was made (nothing for the functional surface, whose handle is new)
Before(h) == IF h = Functional THEN Free ELSE heap[config_[h]]

Init ==
    /\ heap = [r \in Refs |-> IF r = DEFAULT_CONFIG THEN DefaultConfigValue ELSE Free]
    /\ config_ = [h \in Handles |-> NoRef]
    /\ pc = "idle"
    /\ call = NoCall
    /\ requests = << >>
    /\ responses = << >>
    /\ result = NoResult
    /\ tokenCalls = 0
    /\ bodyReads = 0
    /\ decodeArgs = << >>
    /\ store = [id \in SecretIds |-> NoSecret]
    /\ abandoned = {}

\* a call that fails before touching the transport
FailEarly(c, error) ==
    /\ call' = c
    /\ result' = Thrown(error, 0)
    /\ requests' = << >>
    /\ responses' = << >>
    /\ tokenCalls' = 0
    /\ bodyReads' = 0
    /\ decodeArgs' = << >>
    /\ UNCHANGED << config_, pc, store, abandoned >>

\* the handle a new init(...) yields: the first one not yet created, with a
\* fresh configuration object
NewHandle(h) == /\ h \in Handles
                /\ config_[h] = NoRef
                /\ \A g \in Handles : g < h => config_[g] # NoRef
NewRefFirst(h) == 1
NewRefShared(h) == DEFAULT_CONFIG
NewRef(h) == h

\* new GCSecretManager(obj), then an optional setter on it; state of the
\* heap and of the handle table afterwards
Construct(h, obj) ==
    /\ heap' = [heap EXCEPT ![NewRef(h)] = obj]
    /\ config_' = [config_ EXCEPT ![h] = NewRef(h)]

\* init and the setters make no request and return the handle
ReturnHandle(op, h, config, project, version) ==
    /\ call' = Call(op, h, Free, config, project, "", version, NoValue)
    /\ result' = Returned("handle", << >>, h)
    /\ requests' = << >>
    /\ responses' = << >>
    /\ tokenCalls' = 0
    /\ bodyReads' = 0
    /\ decodeArgs' = << >>
    /\ UNCHANGED << pc, store, abandoned >>

\* init(config)
init(h, config) ==
    /\ pc = "idle"
    /\ NewHandle(h)
    /\ Construct(h, initConfig(config))
    /\ ReturnHandle("init", h, config, ABSENT, ABSENT)

\* a setProject that replaces the stored configuration by a new object
\* holding the defaults and the project
setProjectResetting(h, fresh, project) ==
    /\ pc = "idle"
    /\ IF fresh
       THEN /\ NewHandle(h)
            /\ Construct(h, [initConfig(NoConfig) EXCEPT !.project = project])
       ELSE /\ Created(h)
            /\ heap' = [heap EXCEPT ![config_[h]] =
                                        [initConfig(NoConfig) EXCEPT !.project = project]]
            /\ UNCHANGED config_
    /\ ReturnHandle("setProject", h, NoConfig, project, ABSENT)

\* handle.setProject(project); setProject(project) is init().setProject(project)
setProject(h, fresh, project) ==
    /\ pc = "idle"
    /\ IF fresh
       THEN /\ NewHandle(h)
            /\ Construct(h, [initConfig(NoConfig) EXCEPT !.project = project])
       ELSE /\ Created(h)
            /\ heap' = [heap EXCEPT ![config_[h]].project = project]
            /\ UNCHANGED config_
    /\ ReturnHandle("setProject", h, NoConfig, project, ABSENT)

\* handle.setVersion(version); setVersion(version) is init().setVersion(version)
setVersion(h, fresh, version) ==
    /\ pc = "idle"
    /\ IF fresh
       THEN /\ NewHandle(h)
            /\ Construct(h, [initConfig(NoConfig) EXCEPT !.version = version])
       ELSE /\ Created(h)
            /\ heap' = [heap EXCEPT ![config_[h]].version = version]
            /\ UNCHANGED config_
    /\ ReturnHandle("setVersion", h, NoConfig, ABSENT, version)

\* getSecret's body, for the call c and the response the transport delivers
DoGetSecret(c, project, key, version, resp) ==
    LET outcome == ClassifyFetch(resp) IN
    /\ call' = c
    /\ tokenCalls' = 1
    /\ requests' = << AccessRequest(project, key, VersionParam(version), 1) >>
    /\ responses' = << resp >>
    /\ result' = outcome.result
    /\ bodyReads' = outcome.reads
    /\ decodeArgs' = outcome.decoded
    /\ UNCHANGED << config_, pc, store, abandoned >>

\* a get/set that writes the merged configuration back into this.config_
\* get and set work on mergedConfig, the new object getConfig_ returns; the
\* configuration objects already stored stay as they are
StoredConfigsMerged(h, mergedConfig) ==
    IF h \in Handles THEN [heap EXCEPT ![config_[h]] = mergedConfig] ELSE heap
StoredConfigs(h, mergedConfig) == heap

\* handle.get(key, config) and get(key, config)
get(h, key, config, resp) ==
    /\ pc = "idle"
    /\ Callable(h)
    /\ heap' = StoredConfigs(h, getConfig_(InstanceConfig(h, config), CallConfig(h, config)))
    /\ LET inst == InstanceConfig(h, config)
           mergedConfig == getConfig_(inst, CallConfig(h, config))
           c == Call("get", h, Before(h), config, mergedConfig.project, key,
                     mergedConfig.version, NoValue)
       IN  IF ProjectMissing(mergedConfig)
           THEN FailEarly(c, ProjectRequired)
           ELSE DoGetSecret(c, mergedConfig.project, key, mergedConfig.version, resp)

\* handle.getSecret(project, key, version) and getSecret(project, key, version)
getSecret(h, project, key, version, resp) ==
    /\ pc = "idle"
    /\ Callable(h)
    /\ UNCHANGED heap
    /\ DoGetSecret(Call("getSecret", h, Free, NoConfig, project, key, version, NoValue),
                   project, key, version, resp)

\* a POST that reuses the token the call fetched for its first request
DoPostCachedToken(c, req, status, after) ==
    /\ call' = c
    /\ tokenCalls' = 1
    /\ requests' = Append(IF req.token = 1 THEN << >> ELSE requests,
                         [req EXCEPT !.token = 1])
    /\ responses' = Append(IF req.token = 1 THEN << >> ELSE responses,
                           [status |-> status, body |-> ErrorBody])
    /\ store' = StoreAfter(<< req.project, req.key >>, req.kind, status)
    /\ abandoned' = IF c.op = "set" /\ req.kind = "addVersion"
                       /\ after.result.outcome = "throw" /\ responses[1].status = 200
                    THEN abandoned \cup {<< req.project, req.key >>}
                    ELSE abandoned
    /\ result' = after.result
    /\ pc' = after.pc
    /\ bodyReads' = 0
    /\ decodeArgs' = << >>
    /\ UNCHANGED config_

\* one POST of createSecret / createSecretVersion for the call c: the request
\* is appended, the store answers, and `after` says how the call goes on
DoPost(c, req, status, after) ==
    /\ call' = c
    /\ tokenCalls' = req.token
    /\ requests' = Append(IF req.token = 1 THEN << >> ELSE requests, req)
    /\ responses' = Append(IF req.token = 1 THEN << >> ELSE responses,
                           [status |-> status, body |-> ErrorBody])
    /\ store' = StoreAfter(<< req.project, req.key >>, req.kind, status)
    /\ abandoned' = IF c.op = "set" /\ req.kind = "addVersion"
                       /\ after.result.outcome = "throw" /\ responses[1].status = 200
                    THEN abandoned \cup {<< req.project, req.key >>}
                    ELSE abandoned
    /\ result' = after.result
    /\ pc' = after.pc
    /\ bodyReads' = 0
    /\ decodeArgs' = << >>
    /\ UNCHANGED config_

\* handle.createSecret(project, key) and createSecret(project, key)
createSecret(h, project, key, status) ==
    /\ pc = "idle"
    /\ Callable(h)
    /\ UNCHANGED heap
    /\ status \in CreateStatuses(<< Str(project), key >>)
    /\ DoPost(Call("createSecret", h, Free, NoConfig, project, key, ABSENT, NoValue),
              CreateSecretRequest(project, key, 1), status,
              [result |-> Returned("response", << >>, status), pc |-> "idle"])

\* handle.createSecretVersion(project, key, value) and its functional form
createSecretVersion(h, project, key, value, status) ==
    /\ pc = "idle"
    /\ Callable(h)
    /\ UNCHANGED heap
    /\ status \in VersionStatuses(<< Str(project), key >>)
    /\ DoPost(Call("createSecretVersion", h, Free, NoConfig, project, key, ABSENT, value),
              AddVersionRequest(project, key, value, 1), status,
              [result |-> Returned("response", << >>, status), pc |-> "idle"])

\* handle.set(key, value, config) and set(key, value, config), up to and
\* including the check of the create-secret response
set(h, key, value, config, status) ==
    /\ pc = "idle"
    /\ Callable(h)
    /\ heap' = StoredConfigs(h, getConfig_(InstanceConfig(h, config), CallConfig(h, config)))
    /\ LET inst == InstanceConfig(h, config)
           mergedConfig == getConfig_(inst, CallConfig(h, config))
           c == Call("set", h, Before(h), config, mergedConfig.project, key,
                     mergedConfig.version, value)
       IN  IF ProjectMissing(mergedConfig)
           THEN FailEarly(c, ProjectRequired)
           ELSE /\ status \in CreateStatuses(<< Str(mergedConfig.project), key >>)
                /\ DoPost(c, CreateSecretRequest(mergedConfig.project, key, 1), status,
                          IF CreateAccepted(status)
                          THEN [result |-> Pending, pc |-> "createSecretVersion"]
                          ELSE [result |-> Thrown(UnexpectedCreate, status), pc |-> "idle"])

\* a set that sends the add-version request again after a refusal
setVersionStepRetrying(status) ==
    /\ pc = "createSecretVersion"
    /\ UNCHANGED heap
    /\ status \in VersionStatuses(<< Str(call.project), call.key >>)
    /\ DoPost(call, AddVersionRequest(call.project, call.key, call.value, 2), status,
              [result |-> IF VersionAccepted(status)
                          THEN Returned("void", << >>, 0)
                          ELSE Thrown(UnexpectedVersion, status),
               pc |-> IF VersionAccepted(status) THEN "idle" ELSE "createSecretVersion"])

\* set(), from the createSecretVersion call to its end
setVersionStep(status) ==
    /\ pc = "createSecretVersion"
    /\ UNCHANGED heap
    /\ status \in VersionStatuses(<< Str(call.project), call.key >>)
    /\ DoPost(call, AddVersionRequest(call.project, call.key, call.value, 2), status,
              [result |-> IF VersionAccepted(status)
                          THEN Returned("void", << >>, 0)
                          ELSE Thrown(UnexpectedVersion, status),
               pc |-> "idle"])

\* ------------------------------------------------------- specifications
\* the specifications below create all handles but the last one
FirstHandles == 1 .. (MaxHandles - 1)
AnyHandle == FirstHandles \cup {Functional}
AllStatuses == {200, 201, 403, 404, 409, 500}

\* Configuration resolution: every config literal, on a handle and on the
\* functional surface; the transport answers reads with 404 or 200 and
\* refuses writes.
ReadReplies == {[status |-> 404, body |-> ErrorBody], [status |-> 200, body |-> SomeBody]}
SomeValue == << 97, 98 >>
Next ==
    \/ \E h \in FirstHandles, config \in ConfigArgs : init(h, config)
    \/ \E h \in FirstHandles, fresh \in BOOLEAN, project \in ProjectArgs :
           setProject(h, fresh, project)
    \/ \E h \in FirstHandles, fresh \in BOOLEAN, version \in VersionArgs :
           setVersion(h, fresh, version)
    \/ \E h \in AnyHandle, key \in Keys, config \in ConfigArgs, resp \in ReadReplies :
           get(h, key, config, resp)
    \/ \E h \in AnyHandle, key \in Keys, config \in ConfigArgs :
           set(h, key, SomeValue, config, 500)

Spec == Init /\ [][Next]_vars

\* Reads: every response the transport can deliver, few configurations.
FetchConfigs == {NoConfig, [project |-> "p1", version |-> ABSENT],
                 [project |-> "p2", version |-> "1"]}
NextFetch ==
    \/ \E h \in FirstHandles, config \in FetchConfigs : init(h, config)
    \/ \E h \in AnyHandle, key \in Keys, config \in FetchConfigs, resp \in FetchResponses :
           get(h, key, config, resp)
    \/ \E h \in AnyHandle, project \in {"p1", NULL}, key \in Keys, version \in VersionArgs,
          resp \in FetchResponses : getSecret(h, project, key, version, resp)

SpecFetch == Init /\ [][NextFetch]_vars

\* Writes: set against the remote store.
InitConfigs == {NoConfig, [project |-> "p1", version |-> ABSENT]}
WriteConfigs == {NoConfig} \cup [project : ProjectArgs, version : {ABSENT}]
NextWrite ==
    \/ \E h \in FirstHandles, config \in InitConfigs : init(h, config)
    \/ \E h \in AnyHandle, key \in Keys, value \in Values, config \in WriteConfigs,
          status \in AllStatuses : set(h, key, value, config, status)
    \/ \E status \in AllStatuses : setVersionStep(status)

SpecWrite == Init /\ [][NextWrite]_vars

\* Every operation of both surfaces, with few arguments each.
CallConfigs == {NoConfig, [project |-> "p2", version |-> "1"],
                [project |-> NULL, version |-> ABSENT]}
NextCalls ==
    \/ \E h \in FirstHandles, config \in InitConfigs : init(h, config)
    \/ \E h \in AnyHandle, key \in Keys, config \in CallConfigs, resp \in ReadReplies :
           get(h, key, config, resp)
    \/ \E h \in AnyHandle, key \in Keys, config \in CallConfigs, status \in AllStatuses :
           set(h, key, SomeValue, config, status)
    \/ \E status \in AllStatuses : setVersionStep(status)
    \/ \E h \in AnyHandle, project \in {"p1", NULL}, key \in Keys, version \in {"1", UNDEF},
          resp \in ReadReplies : getSecret(h, project, key, version, resp)
    \/ \E h \in AnyHandle, project \in {"p1", NULL}, key \in Keys, status \in AllStatuses :
           createSecret(h, project, key, status)
    \/ \E h \in AnyHandle, project \in {"p1", NULL}, key \in Keys, status \in AllStatuses :
           createSecretVersion(h, project, key, SomeValue, status)

SpecCalls == Init /\ [][NextCalls]_vars

\* Several handles: init and the setters on every handle, a get on each.
SetterProjects == {"p1", "p2"}
SetterVersions == {"1", "latest"}
NotFound == [status |-> 404, body |-> ErrorBody]
NextHandles ==
    \/ \E h \in Handles, config \in InitConfigs : init(h, config)
    \/ \E h \in Handles, fresh \in BOOLEAN, project \in SetterProjects :
           setProject(h, fresh, project)
    \/ \E h \in Handles, fresh \in BOOLEAN, version \in SetterVersions :
           setVersion(h, fresh, version)
    \/ \E h \in Handles \cup {Functional}, key \in Keys : get(h, key, NoConfig, NotFound)

SpecHandles == Init /\ [][NextHandles]_vars

\* --------------------------------------------------------------- claims
\* the value of field f after layering the call's config over the handle's
\* configuration over the library defaults: the right-most layer that has
\* the key decides
Layered(f) ==
    IF call.config[f] # ABSENT THEN call.config[f]
    ELSE IF call.inst[f] # ABSENT THEN call.inst[f]
    ELSE DefaultConfigValue[f]

\* C1: when the merged project of a get or set is null, empty or absent, the
\* call throws "Google Cloud Project is required" and has made no transport
\* invocation (and fetched no token).
C1_NoRequestWithoutProject ==
    (call.op \in {"get", "set"} /\ Falsy(Layered("project")))
        => /\ result = Thrown(ProjectRequired, 0)
           /\ Len(requests) = 0
           /\ tokenCalls = 0

\* C1 witness: a set on a handle of project p1 whose call-level project is
\* the empty string has failed with no request.
C1_Witness ==
    /\ call.op = "set" /\ call.h \in Handles
    /\ call.inst.project = "p1" /\ call.config.project = EMPTY
    /\ result.error = ProjectRequired /\ requests = << >>

\* C2: in set, a create-secret status other than 200 and 409 makes set throw
\* the unexpected-response error of secret creation with that status; one
\* request has been sent and no add-version request follows.
C2_CreateFailureStopsSet ==
    (call.op = "set" /\ Len(responses) >= 1 /\ responses[1].status \notin {200, 409})
        => /\ result = Thrown(UnexpectedCreate, responses[1].status)
           /\ pc = "idle"
           /\ Len(requests) = 1
           /\ requests[1].kind = "createSecret"

\* C2 witness: a set whose create-secret got 500.
C2_Witness ==
    /\ call.op = "set" /\ Len(responses) = 1 /\ responses[1].status = 500
    /\ result.error = UnexpectedCreate /\ result.code = 500 /\ Len(requests) = 1

\* C3: a set whose create-secret got 200 first issues create-secret for
\* (project, key) and then, as its second and last request, add-version for the
\* same (project, key) with payload data base64Encode(value).
C3_CreateThenAddVersion ==
    (call.op = "set" /\ Len(responses) >= 1 /\ responses[1].status = 200)
        => /\ requests[1].kind = "createSecret"
           /\ requests[1].project = call.project /\ requests[1].key = call.key
           /\ IF pc = "createSecretVersion"
              THEN Len(requests) = 1
              ELSE /\ Len(requests) = 2
                   /\ requests[2].kind = "addVersion"
                   /\ requests[2].project = call.project /\ requests[2].key = call.key
                   /\ requests[2].payload = "data"
                   /\ requests[2].data = EncodeBytes(EncodeUTF8(call.value))

\* C3 witness: set(k1, "ab") on p1 finished after 200 and 200; the data sent
\* is "YWI=".
C3_Witness ==
    /\ call.op = "set" /\ pc = "idle" /\ call.value = << 97, 98 >>
    /\ Len(requests) = 2 /\ responses[1].status = 200 /\ responses[2].status = 200
    /\ requests[1].kind = "createSecret" /\ requests[2].kind = "addVersion"
    /\ requests[2].data = << 24, 22, 8, PAD >>

\* C4: a set whose create-secret got 409 does not throw for it: it goes on to
\* the add-version request, and returns normally when that one gets 200.
C4_ExistingSecretTolerated ==
    (call.op = "set" /\ Len(responses) >= 1 /\ responses[1].status = 409)
        => /\ result.error # UnexpectedCreate
           /\ IF pc = "createSecretVersion"
              THEN result = Pending /\ Len(requests) = 1
              ELSE /\ Len(requests) = 2
                   /\ requests[2].kind = "addVersion"
                   /\ (responses[2].status = 200 => result = Returned("void", << >>, 0))

\* C4 witness: a set finished without error after 409 and 200.
C4_Witness ==
    /\ call.op = "set" /\ pc = "idle" /\ Len(requests) = 2
    /\ responses[1].status = 409 /\ responses[2].status = 200
    /\ requests[2].kind = "addVersion" /\ result.outcome = "return"

\* C5: once create-secret got 200 or 409 and add-version was answered, set
\* returns normally exactly when the add-version status is 200; for any other
\* status it throws the unexpected-response error of version creation, which
\* carries that status.
C5_OnlyStatus200AddsVersion ==
    (call.op = "set" /\ Len(responses) = 2)
        => /\ responses[1].status \in {200, 409}
           /\ result = IF responses[2].status = 200
                        THEN Returned("void", << >>, 0)
                        ELSE Thrown(UnexpectedVersion, responses[2].status)

\* C5 witness: a set whose add-version got 201 has thrown with code 201.
C5_Witness ==
    /\ call.op = "set" /\ Len(responses) = 2 /\ responses[2].status = 201
    /\ result.error = UnexpectedVersion /\ result.code = 201

\* C6: a get / getSecret whose response status is not 200, 403 or 404 and is
\* not 2xx throws an unexpected-response error carrying the status, without
\* reading the response body.
C6_UnexpectedReadStatusRejected ==
    (call.op \in {"get", "getSecret"} /\ Len(responses) = 1
        /\ responses[1].status \notin {200, 403, 404}
        /\ ~(responses[1].status >= 200 /\ responses[1].status < 300))
        => /\ result.outcome = "throw"
           /\ result.code = responses[1].status
           /\ bodyReads = 0
           /\ decodeArgs = << >>

\* C7: a get / getSecret, on a handle or functional, whose response status is
\* 403 throws "Permission denied" and never reads the response body.
C7_ForbiddenIsPermissionError ==
    (call.op \in {"get", "getSecret"} /\ Len(responses) = 1 /\ responses[1].status = 403)
        => /\ result = Thrown(PermissionDenied, 0)
           /\ bodyReads = 0
           /\ decodeArgs = << >>

\* C7 witness: a functional get answered 403 with a decodable body.
C7_Witness ==
    /\ call.op = "get" /\ call.h = Functional /\ Len(responses) = 1
    /\ responses[1].status = 403 /\ responses[1].body.kind = "payload"
    /\ result.error = PermissionDenied /\ bodyReads = 0

\* C8: a get / getSecret whose response status is 404 returns undefined and
\* throws nothing.
C8_NotFoundIsUndefined ==
    (call.op \in {"get", "getSecret"} /\ Len(responses) = 1 /\ responses[1].status = 404)
        => /\ result = Returned("undefined", << >>, 0)
           /\ bodyReads = 0

\* C8 witness: a getSecret on a handle answered 404.
C8_Witness ==
    /\ call.op = "getSecret" /\ call.h \in Handles /\ Len(responses) = 1
    /\ responses[1].status = 404 /\ result.outcome = "return" /\ result.kind = "undefined"

\* C9: a get / getSecret answered 200 with body {"payload":{"data":D}} returns
\* the UTF-8 text of the bytes that D encodes in base64, and calls the base64
\* decoder once, on D.
C9_PayloadDecoded ==
    (call.op \in {"get", "getSecret"} /\ Len(responses) = 1 /\ responses[1].status = 200
        /\ responses[1].body.kind = "payload")
        => /\ result = Returned("string", DecodeUTF8(base64Decode(responses[1].body.data)), 0)
           /\ decodeArgs = << responses[1].body.data >>
           /\ EncodeBytes(EncodeUTF8(result.text)) = responses[1].body.data
                  \/ REPLACEMENT \in {result.text[i] : i \in 1 .. Len(result.text)}

\* C9 witness: a get answered 200 with data "YcOp" has returned "a\'e" with
\* one decoder call.
C9_Witness ==
    /\ call.op = "get" /\ Len(responses) = 1 /\ responses[1].status = 200
    /\ responses[1].body = [kind |-> "payload", data |-> << 24, 28, 14, 41 >>]
    /\ result.text = << 97, 233 >> /\ Len(decodeArgs) = 1

\* the value a layer gives for field f, when it is an actual project id /
\* version: the call's, else the handle's, else the library default
Given(f) == IF f = "project" THEN ProjectIds ELSE VersionIds
NotDecided == "<none>"
Effective(f) ==
    IF call.config[f] \in Given(f) THEN call.config[f]
    ELSE IF call.config[f] # ABSENT THEN NotDecided
    ELSE IF call.inst[f] \in Given(f) THEN call.inst[f]
    ELSE IF call.inst[f] # ABSENT THEN NotDecided
    ELSE DefaultConfigValue[f]

\* C10: in a get, a project / version given at call level wins over the
\* handle's, which wins over the library default (version "latest"); the get
\* issues exactly one request, for .../projects/<effective project>/secrets/
\* <key>/versions/<effective version>:access.
C10_Precedence ==
    call.op = "get"
        => /\ Effective("project") \in ProjectIds
                => /\ Len(requests) = 1
                   /\ requests[1].kind = "access"
                   /\ requests[1].project = Effective("project")
                   /\ requests[1].key = call.key
           /\ (Len(requests) = 1 /\ Effective("version") \in VersionIds)
                => requests[1].version = Effective("version")

\* C10 witness: get(k1, {project: "p2", version: "1"}) on a handle configured
\* with p1 / latest has requested p2 and version 1.
C10_Witness ==
    /\ call.op = "get" /\ call.h \in Handles
    /\ call.inst = [project |-> "p1", version |-> "latest"]
    /\ call.config = [project |-> "p2", version |-> "1"]
    /\ Len(requests) = 1 /\ requests[1].project = "p2" /\ requests[1].version = "1"

\* the version segment of the path for a merged version: undefined takes
\* getSecret's default, null is written out
PathVersion(v) == IF v = UNDEF THEN "latest" ELSE IF v = NULL THEN "null" ELSE v

C12_NoRequestForMissingProject ==
    Len(requests) > 0
        => /\ ~Falsy(call.project)
           /\ \A i \in 1 .. Len(requests) : requests[i].project \notin {"null", "undefined", ""}

\* C13: a get or a set on a handle, whether it returns, throws or is between
\* its two requests, leaves the handle's stored configuration and every other
\* configuration object as they were; a get without override that follows a
\* get or set on the same handle starts from the same handle configuration
\* and, when it sends a request, names that configuration's project and
\* version.
C13_GetSetKeepConfig ==
    [][(call'.op \in {"get", "set"} /\ call'.h \in Handles)
          => /\ heap' = heap
             /\ config_' = config_
             /\ heap'[config_'[call'.h]] = call'.inst
             /\ (call.op \in {"get", "set"} /\ call.h = call'.h
                   /\ call'.op = "get" /\ call'.config = NoConfig)
                  => /\ call'.inst = call.inst
                     /\ requests' # << >>
                          => /\ requests'[1].project = call.inst.project
                             /\ requests'[1].version = PathVersion(call.inst.version)]_vars

\* C13 witness: a get with the override {project: "p2", version: "1"} on a
\* handle of project p1 has sent its request for p2, and the handle still
\* holds p1 and "latest".
C13_Witness ==
    /\ call.op = "get" /\ call.h \in Handles
    /\ call.config = [project |-> "p2", version |-> "1"]
    /\ Len(requests) = 1 /\ requests[1].project = "p2" /\ requests[1].version = "1"
    /\ heap[config_[call.h]] = [project |-> "p1", version |-> "latest"]

\* the stored configuration of handle h before a step: the defaults when the
\* step creates the handle
StoredBefore(h) == IF config_[h] = NoRef THEN DefaultConfigValue ELSE heap[config_[h]]

\* C14: setProject and setVersion on an existing handle write the one field
\* into the configuration object the handle already has, keep the other
\* field, allocate nothing and return that same handle; a get without
\* override on a handle uses exactly the stored project and version, i.e. the
\* values of the most recent setters (or of init / the defaults).
C14_SettersMutateInPlace ==
    [][/\ call'.op = "setProject"
          => /\ heap'[config_'[call'.h]] = [StoredBefore(call'.h) EXCEPT !.project = call'.project]
             /\ config_[call'.h] # NoRef => config_' = config_
             /\ result' = Returned("handle", << >>, call'.h)
       /\ call'.op = "setVersion"
          => /\ heap'[config_'[call'.h]] = [StoredBefore(call'.h) EXCEPT !.version = call'.version]
             /\ config_[call'.h] # NoRef => config_' = config_
             /\ result' = Returned("handle", << >>, call'.h)
       /\ (call'.op = "get" /\ call'.h \in Handles /\ call'.config = NoConfig)
          => LET stored == heap[config_[call'.h]] IN
             /\ Falsy(stored.project)
                  => result' = Thrown(ProjectRequired, 0) /\ requests' = << >>
             /\ ~Falsy(stored.project)
                  => /\ Len(requests') = 1
                     /\ requests'[1].project = stored.project
                     /\ requests'[1].version = PathVersion(stored.version)]_vars

\* C14 witness: setVersion("1") on a handle of project p1 has returned the
\* handle, whose configuration is now project p1 with version "1".
C14_Witness ==
    /\ call.op = "setVersion" /\ call.version = "1"
    /\ result = Returned("handle", << >>, call.h)
    /\ heap[config_[call.h]] = [project |-> "p1", version |-> "1"]

\* C15: a functional get or set starts from no handle configuration, whatever
\* handles exist and whatever setters ran before: the library defaults are
\* still {project: null, version: "latest"}; without a project in its own
\* config the call fails for missing project and sends nothing; with one, its
\* request names that project, and a get names the version of its own config
\* or "latest" when it has none.
C15_FunctionalCallsStartEmpty ==
    (call.op \in {"get", "set"} /\ call.h = Functional)
        => /\ heap[DEFAULT_CONFIG] = DefaultConfigValue
           /\ call.inst = Free
           /\ (call.config.project = ABSENT \/ Falsy(call.config.project))
                => result = Thrown(ProjectRequired, 0) /\ requests = << >>
           /\ ~(call.config.project = ABSENT \/ Falsy(call.config.project))
                => /\ Len(requests) >= 1
                   /\ requests[1].project = call.config.project
                   /\ call.op = "get"
                        => requests[1].version =
                               IF call.config.version = ABSENT THEN "latest"
                               ELSE PathVersion(call.config.version)

\* C15 witness: a functional get without config has failed for missing
\* project while a handle made earlier holds project p1 and version "1".
C15_Witness ==
    /\ call.op = "get" /\ call.h = Functional /\ call.config = NoConfig
    /\ result = Thrown(ProjectRequired, 0) /\ requests = << >>
    /\ \E h \in Handles : /\ config_[h] # NoRef
                          /\ heap[config_[h]] = [project |-> "p1", version |-> "1"]

\* C16: once a set has created a secret and failed to add its version, the
\* secret stays in the store; a later set for the same project and key is
\* never answered 200 at step 1, and when it is answered 409 it goes on to
\* the add-version request and, if that is answered 200, returns without
\* error.
C16_RetryOfSetIsSafe ==
    (call.op = "set" /\ Len(requests) >= 1
       /\ << requests[1].project, requests[1].key >> \in abandoned)
        => /\ store[<< requests[1].project, requests[1].key >>] # NoSecret
           /\ responses[1].status = 200
                => /\ Len(requests) = 2
                   /\ result = Thrown(UnexpectedVersion, responses[2].status)
           /\ responses[1].status = 409
                => \/ /\ pc = "createSecretVersion"
                      /\ Len(requests) = 1
                      /\ result = Pending
                   \/ /\ pc = "idle"
                      /\ Len(requests) = 2
                      /\ requests[2].kind = "addVersion"
                      /\ requests[2].project = requests[1].project
                      /\ requests[2].key = requests[1].key
                      /\ responses[2].status = 200 => result = Returned("void", << >>, 0)

\* C16 witness: a set for a secret that an earlier set left without version
\* was answered 409, then 200, and returned.
C16_Witness ==
    /\ call.op = "set" /\ Len(requests) = 2
    /\ << requests[1].project, requests[1].key >> \in abandoned
    /\ responses[1].status = 409 /\ responses[2].status = 200
    /\ result = Returned("void", << >>, 0)

\* C17: set is two separate requests with nothing undone. After step 1 and
\* before step 2 the store holds the secret, with no version if this set
\* created it and with the versions it had otherwise. A refused step 2 ends
\* the call: the store is left as it was before that step (secret present,
\* versionless if this set created it), the error is thrown, and the call
\* has sent exactly the create-secret and the add-version request, so no
\* delete and no second attempt.
C17_SetNotAtomicNoRollback ==
    [][(call'.op = "set" /\ requests' # << >>)
          => LET id == << requests'[1].project, requests'[1].key >> IN
             /\ pc' = "createSecretVersion"
                  => /\ Len(requests') = 1
                     /\ store'[id] # NoSecret
                     /\ store'[id] = IF responses'[1].status = 200 THEN 0 ELSE store[id]
             /\ (Len(requests') = 2 /\ result'.outcome = "throw")
                  => /\ store' = store
                     /\ store'[id] # NoSecret
                     /\ responses'[1].status = 200 => store'[id] = 0
             /\ result'.outcome = "throw" => pc' = "idle"
             /\ Len(requests') <= 2
             /\ requests'[1].kind = "createSecret"
             /\ Len(requests') = 2 => requests'[2].kind = "addVersion"]_vars

\* C17 witness: a set created the secret (200), its add-version request was
\* refused with 500, and the store holds the secret without any version.
C17_Witness ==
    /\ call.op = "set" /\ Len(requests) = 2 /\ pc = "idle"
    /\ responses[1].status = 200 /\ responses[2].status = 500
    /\ result = Thrown(UnexpectedVersion, 500)
    /\ store[<< requests[1].project, requests[1].key >>] = 0

\* C18: ScriptApp.getOAuthToken is called once for each request: the number
\* of token retrievals of a call equals the number of requests it has sent,
\* the i-th request carries the i-th token retrieved, a get, getSecret,
\* createSecret or createSecretVersion that reaches the transport sends one
\* request, and a set that reaches step 2 has sent two.
C18_TokenFetchedPerRequest ==
    /\ tokenCalls = Len(requests)
    /\ \A i \in 1 .. Len(requests) : requests[i].token = i
    /\ call.op \in {"getSecret", "createSecret", "createSecretVersion"} => tokenCalls = 1
    /\ call.op = "get" => tokenCalls = IF result = Thrown(ProjectRequired, 0) THEN 0 ELSE 1
    /\ call.op = "set"
         => tokenCalls = IF result = Thrown(ProjectRequired, 0) THEN 0
                         ELSE IF pc = "createSecretVersion" \/ result.error = UnexpectedCreate
                              THEN 1 ELSE 2

\* C18 witness: a set has sent both of its requests and returned, with two
\* token retrievals, the second request carrying the second token.
C18_Witness ==
    /\ call.op = "set" /\ result = Returned("void", << >>, 0)
    /\ Len(requests) = 2 /\ tokenCalls = 2
    /\ requests[1].token = 1 /\ requests[2].token = 2

\* C19: every step leaves the library defaults at {project: null, version:
\* "latest"}; the configuration of an existing handle changes only in a
\* setProject or setVersion on that very handle, and the handle keeps its
\* configuration object; no two handles hold the same configuration object,
\* and none holds the defaults object.
C19_HandlesShareNothing ==
    [][/\ heap'[DEFAULT_CONFIG] = DefaultConfigValue
       /\ \A g \in Handles :
             config_[g] # NoRef
                => /\ config_'[g] = config_[g]
                   /\ ~(call'.op \in {"setProject", "setVersion"} /\ call'.h = g)
                        => heap'[config_'[g]] = heap[config_[g]]
       /\ \A g \in Handles :
             config_'[g] # NoRef
                => /\ config_'[g] # DEFAULT_CONFIG
                   /\ \A k \in Handles \ {g} : config_'[k] # config_'[g]]_vars

\* C19 witness: after setVersion("1") on the second handle, it holds project
\* p2 and version "1" while the first handle still holds p1 and "latest" and
\* the defaults are as declared.
C19_Witness ==
    /\ call.op = "setVersion" /\ call.h = 2 /\ call.version = "1"
    /\ config_[1] # NoRef /\ config_[2] # NoRef
    /\ heap[config_[1]] = [project |-> "p1", version |-> "latest"]
    /\ heap[config_[2]] = [project |-> "p2", version |-> "1"]
    /\ heap[DEFAULT_CONFIG] = DefaultConfigValue

====
